---- MODULE Spec2Model ----
(***************************************************************************)
(* rocblas_trtri_trsm_template (library/src/blas3/trtri_trsm.hpp): the     *)
(* driver that fills invA with the inverses of the NB x NB diagonal blocks *)
(* of a triangular matrix A.  Memory is modelled as flat buffers addressed *)
(* with the offsets, leading dimensions and strides the driver computes;   *)
(* every launch the driver issues on its stream is one step.               *)
(*                                                                         *)
(* The element type T is modelled by the integers; the inputs drawn have   *)
(* diagonal entries 1 or -1, so that every inverse is an integer matrix    *)
(* and all arithmetic is exact.                                            *)
(***************************************************************************)
EXTENDS Integers, Sequences, FiniteSets, TLC

VARIABLES pc, uplo, diag, n, lda, batch_count, offset_Ain, offset_invAin,
          seed, A, invA, C_tmp, status, log

vars == <<pc, uplo, diag, n, lda, batch_count, offset_Ain, offset_invAin,
          seed, A, invA, C_tmp, status, log>>

(***************************************************************************)
(* Bounds of the model.                                                    *)
(***************************************************************************)
\* n ranges over t*NB + r with up to MaxTiles full tiles
MaxTiles == 2
\* batch_count ranges over 1..MaxBatch
MaxBatch == 2
\* each batch entry's matrix is one of the patterns 0..MaxSeed
MaxSeed == 1

(***************************************************************************)
(* Block sizes.                                                            *)
(***************************************************************************)
\* template parameter NB; IB = NB / IBD must be at least 1
NB == 8
IBD == 8
IB == NB \div IBD
JB == IB * 4
sub_blockSize == 128

rocblas_status_success == "rocblas_status_success"
rocblas_status_internal_error == "rocblas_status_internal_error"
rocblas_fill_lower == "rocblas_fill_lower"
rocblas_fill_upper == "rocblas_fill_upper"
rocblas_diagonal_unit == "rocblas_diagonal_unit"
rocblas_diagonal_non_unit == "rocblas_diagonal_non_unit"

\* the statuses a sub-step can return
SubStepStatus == {rocblas_status_success, rocblas_status_internal_error}

(***************************************************************************)
(* Helpers of the arithmetic.                                              *)
(***************************************************************************)
Min(a, b) == IF a < b THEN a ELSE b

\* 1/d in T for the invertible diagonal entries the inputs carry (1 and -1)
Recip(d) == IF d = -1 THEN -1 ELSE 1

\* apply the stores ws[lo], ..., ws[hi] (<<address, value>>) to mem in order;
\* a store leaves the extent of the buffer as it is, and an address outside the
\* buffer stores nothing
RECURSIVE StoreRange(_, _, _, _)
StoreRange(mem, ws, lo, hi) ==
    IF lo > hi THEN mem
    ELSE IF lo = hi
      THEN LET w == ws[lo]
           IN IF w[1] \in DOMAIN mem THEN [mem EXCEPT ![w[1]] = w[2]] ELSE mem
    ELSE LET mid  == (lo + hi) \div 2
             left == StoreRange(mem, ws, lo, mid)
         IN IF DOMAIN left = DOMAIN mem
              THEN StoreRange(left, ws, mid + 1, hi)
              ELSE mem

StoreAll(mem, ws) == StoreRange(mem, ws, 1, Len(ws))

\* T* load_ptr_batch(T* p, block, offset, stride): strided addressing
load_ptr_batch(block, offset, stride) == block * stride + offset

(***************************************************************************)
(* Sizes of the driver.                                                    *)
(***************************************************************************)
sub_blocks_of(nn) == nn \div NB
rem_of(nn) == nn - sub_blocks_of(nn) * NB
\* invA is of dimension (NB, ceil(n/NB)*NB)
tiles_of(nn) == (nn + NB - 1) \div NB

\* size_t rocblas_num_non_tri_elements(n)
rocblas_num_non_tri_elements(nn) == (nn * (nn - 1)) \div 2

(***************************************************************************)
(* Triangular inversion (rocblas_trtri.hpp).  The block to invert has its  *)
(* (i, j) element at mem[base + i + j*ld]; only the triangle named by ul   *)
(* is read, and with a unit diagonal the diagonal is not read either.      *)
(***************************************************************************)
DiagInv(dg, mem, base, ld, r) ==
    IF dg = rocblas_diagonal_unit THEN 1 ELSE Recip(mem[base + r + r * ld])

RECURSIVE TriInvEntry(_, _, _, _, _, _, _)
RECURSIVE TriInvSum(_, _, _, _, _, _, _, _, _)
\* entry (r, c) of the inverse, by substitution along column c
TriInvEntry(ul, dg, mem, base, ld, r, c) ==
    IF r = c THEN DiagInv(dg, mem, base, ld, r)
    ELSE IF ul = rocblas_fill_lower /\ r > c
      THEN (0 - DiagInv(dg, mem, base, ld, r))
              * TriInvSum(ul, dg, mem, base, ld, r, c, c, r - 1)
    ELSE IF ul = rocblas_fill_upper /\ r < c
      THEN (0 - DiagInv(dg, mem, base, ld, r))
              * TriInvSum(ul, dg, mem, base, ld, r, c, r + 1, c)
    ELSE 0
TriInvSum(ul, dg, mem, base, ld, r, c, k, hi) ==
    IF k > hi THEN 0
    ELSE mem[base + r + k * ld] * TriInvEntry(ul, dg, mem, base, ld, k, c)
           + TriInvSum(ul, dg, mem, base, ld, r, c, k + 1, hi)

\* (r, c) lies in the triangle ul, diagonal included
InTriangle(ul, r, c) == IF ul = rocblas_fill_lower THEN r >= c ELSE r <= c

\* the stores of one inversion of order m: the triangle ul of the inverse goes
\* to invA_i with leading dimension ldinvA; nothing else is written
TrtriStores(ul, dg, m, Amem, a_i, ld, invA_i, ldinvA) ==
    [k \in 1..(m * m) |->
        LET r == (k - 1) % m
            c == (k - 1) \div m
        IN IF InTriangle(ul, r, c)
             THEN <<invA_i + r + c * ldinvA,
                    TriInvEntry(ul, dg, Amem, a_i, ld, r, c)>>
             ELSE <<-1, 0>>]

\* rocblas_custom_trtri_device<IB>(uplo, diag, IB, a_i, lda, invA_i, NB): one
\* thread block inverts the diagonal block made of two IB x IB diagonal blocks
\* and the off-diagonal block between them
rocblas_custom_trtri_device(ul, dg, nn, Amem, a_i, ld, invA_i, ldinvA) ==
    TrtriStores(ul, dg, 2 * nn, Amem, a_i, ld, invA_i, ldinvA)

(***************************************************************************)
(* rocblas_trtri_trsm_kernel, one thread block (blockIdx.x, blockIdx.y).   *)
(***************************************************************************)
kernel_offA(bx, ld, offset_A) == (2 * bx) * (IB * ld + IB) + offset_A

\* thread block bx placed at leaf bx instead of leaf 2 * bx
kernel_offinvA_single(bx, offset_invA) ==
    (bx \div IBD) * (NB * NB) + (bx % IBD) * (IB * NB + IB) + offset_invA

kernel_offinvA(bx, offset_invA) ==
    ((2 * bx) \div IBD) * (NB * NB) + ((2 * bx) % IBD) * (IB * NB + IB)
      + offset_invA

kernel_batch(bx, by) == by

rocblas_trtri_trsm_kernel(bx, by, ul, dg, Amem, offset_A, ld, strideA, offset_invA, strideinvA) ==
    LET a_i    == load_ptr_batch(kernel_batch(bx, by),
                                 kernel_offA(bx, ld, offset_A), strideA)
        invA_i == load_ptr_batch(kernel_batch(bx, by),
                                 kernel_offinvA(bx, offset_invA), strideinvA)
    IN rocblas_custom_trtri_device(ul, dg, IB, Amem, a_i, ld, invA_i, NB)

\* a grid of half as many thread blocks
kernel_grid_x_half(sb) == (sb * IBD) \div 4

\* dim3 grid(sub_blocks * IBD / 2, batch_count)
kernel_grid_x(sb) == (sb * IBD) \div 2

\* the launch: every thread block of the grid; each writes (2*IB)^2 entries
KernelLaunch(gx, gy, ul, dg, Amem, offset_A, ld, strideA, mem, offset_invA, strideinvA) ==
    LET per == (2 * IB) * (2 * IB)
        ws  == [k \in 1..(gx * gy * per) |->
                  LET blk == (k - 1) \div per
                  IN rocblas_trtri_trsm_kernel(blk % gx, blk \div gx, ul, dg,
                         Amem, offset_A, ld, strideA, offset_invA, strideinvA)
                       [((k - 1) % per) + 1]]
    IN StoreAll(mem, ws)

(***************************************************************************)
(* rocblas_trtri_fill<sub_blockSize, T> (rocblas_trtri.hpp): thread tx of  *)
(* batch entry blockIdx.y zeroes one element of the strict triangle ul of  *)
(* one of sub_batch_count matrices of order nn.                            *)
(***************************************************************************)
\* a read outside the buffer yields an arbitrary value; 99 stands for it
Load(mem, idx) == IF idx \in DOMAIN mem THEN mem[idx] ELSE 99

\* the local-th element (row, column) of the strict upper triangle
StrictUpperCoord(nn, local) ==
    LET c == CHOOSE cc \in 1..(nn - 1) :
                 /\ rocblas_num_non_tri_elements(cc) <= local
                 /\ local < rocblas_num_non_tri_elements(cc + 1)
    IN <<local - rocblas_num_non_tri_elements(c), c>>

FillCoord(ul, nn, local) ==
    LET rc == StrictUpperCoord(nn, local)
    IN IF ul = rocblas_fill_upper THEN rc ELSE <<rc[2], rc[1]>>

\* ROCBLAS_LAUNCH_KERNEL_GRID launches nothing when a grid dimension is 0
rocblas_trtri_fill(mem, gx, gy, ul, nn, num_zero_elem, ld, sub_stride, offset, stride, sub_batch_count) ==
    LET per == Min(gx * sub_blockSize, num_zero_elem * sub_batch_count)
        ws  == [k \in 1..(gy * per) |->
                  LET by     == (k - 1) \div per
                      tx     == (k - 1) % per
                      matrix == tx \div num_zero_elem
                      rc     == FillCoord(ul, nn, tx % num_zero_elem)
                  IN <<load_ptr_batch(by, offset, stride) + matrix * sub_stride
                         + rc[1] + rc[2] * ld, 0>>]
    IN StoreAll(mem, ws)

\* size_t num_sub_blocks = (tri_elements_to_zero + sub_blockSize - 1) / sub_blockSize
num_sub_blocks_of(tri_elements_to_zero) ==
    (tri_elements_to_zero + sub_blockSize - 1) \div sub_blockSize

\* padding told to zero the triangle that holds the inverse
fill_uplo_same(ul) == ul

\* the triangle the padding launches are told to zero
fill_uplo(ul) ==
    IF ul = rocblas_fill_lower THEN rocblas_fill_upper ELSE rocblas_fill_lower

(***************************************************************************)
(* rocblas_trtri_gemm_block (rocblas_trtri.hpp).  g is the record of the   *)
(* arguments.  For each batch entry in turn and every sub-block s:         *)
(*   C       =  A_block * invAg1      (M x N  =  M x N  times  N x N)      *)
(*   invAg2c = -invAg2a * C           (M x N  =  M x M  times  M x N)      *)
(***************************************************************************)
RECURSIVE Dot(_, _, _, _, _, _, _, _)
Dot(X, xb, xstep, Y, yb, ystep, t, cnt) ==
    IF t >= cnt THEN 0
    ELSE Load(X, xb + t * xstep) * Load(Y, yb + t * ystep)
           + Dot(X, xb, xstep, Y, yb, ystep, t + 1, cnt)

gemm_A_base(g, b, s) ==
    load_ptr_batch(b, g.offset_A, g.stride_A) + s * g.sub_stride_A
gemm_invAg1_base(g, b, s) ==
    load_ptr_batch(b, g.offset_invAg1, g.stride_invA) + s * g.sub_stride_invA
gemm_invAg2a_base(g, b, s) ==
    load_ptr_batch(b, g.offset_invAg2a, g.stride_invA) + s * g.sub_stride_invA
gemm_invAg2c_base(g, b, s) ==
    load_ptr_batch(b, g.offset_invAg2c, g.stride_invA) + s * g.sub_stride_invA
gemm_C_base(g, b, s) ==
    load_ptr_batch(b, g.offset_C, g.stride_C) + s * g.sub_stride_C

Gemm1Stores(g, b, Amem, Imem) ==
    [k \in 1..(g.sub_blocks * g.M * g.N) |->
        LET s == (k - 1) \div (g.M * g.N)
            i == ((k - 1) % (g.M * g.N)) % g.M
            j == ((k - 1) % (g.M * g.N)) \div g.M
        IN <<gemm_C_base(g, b, s) + i + j * g.ld_C,
             Dot(Amem, gemm_A_base(g, b, s) + i, g.ld_A,
                 Imem, gemm_invAg1_base(g, b, s) + j * g.ld_invA, 1,
                 0, g.N)>>]

Gemm2Stores(g, b, Imem, Cmem) ==
    [k \in 1..(g.sub_blocks * g.M * g.N) |->
        LET s == (k - 1) \div (g.M * g.N)
            i == ((k - 1) % (g.M * g.N)) % g.M
            j == ((k - 1) % (g.M * g.N)) \div g.M
        IN <<gemm_invAg2c_base(g, b, s) + i + j * g.ld_invA,
             0 - Dot(Imem, gemm_invAg2a_base(g, b, s) + i, g.ld_invA,
                     Cmem, gemm_C_base(g, b, s) + j * g.ld_C, 1,
                     0, g.M)>>]

\* the memories <<invA, C>> after the batch entries b, b+1, ... are done
RECURSIVE rocblas_trtri_gemm_block(_, _, _, _, _)
rocblas_trtri_gemm_block(g, b, Amem, Imem, Cmem) ==
    IF b >= g.batch THEN <<Imem, Cmem>>
    ELSE LET C1 == StoreAll(Cmem, Gemm1Stores(g, b, Amem, Imem))
             I1 == StoreAll(Imem, Gemm2Stores(g, b, Imem, C1))
         IN rocblas_trtri_gemm_block(g, b + 1, Amem, I1, C1)

(***************************************************************************)
(* The driver's offsets for the three rocblas_trtri_gemm_block calls.      *)
(***************************************************************************)
sub_stride_A_of(ld) == NB * ld + NB
sub_stride_invA == NB * NB
\* a scratch stride of half a JB x JB block
sub_stride_C_half == (JB * JB) \div 2

\* a scratch stride of one whole tile instead of one JB x JB block
sub_stride_C_tile == NB * NB

sub_stride_C == JB * JB

\* the first call reading the block of A on the other side of the diagonal
gemm1_offset_A_swapped(ul, ld) == IF ul = rocblas_fill_lower THEN IB * 2 * ld ELSE IB * 2

gemm1_offset_A(ul, ld) == IF ul = rocblas_fill_lower THEN IB * 2 ELSE IB * 2 * ld
gemm1_offset_invA1(ul) == IF ul = rocblas_fill_lower THEN 0 ELSE IB * 2 * NB + IB * 2
gemm1_offset_invA2(ul) == IF ul = rocblas_fill_lower THEN IB * 2 * NB + IB * 2 ELSE 0
gemm1_offset_invA3(ul) == IF ul = rocblas_fill_lower THEN IB * 2 ELSE IB * 2 * NB

\* the second call reading its block of A one IB x IB block off
gemm2_offset_A_shifted(ul, ld) ==
    IF ul = rocblas_fill_lower THEN IB * 4 * ld + IB * 5 ELSE IB * 5 * ld + IB * 4

gemm2_offset_A(ul, ld) ==
    IF ul = rocblas_fill_lower THEN IB * 4 * ld + IB * 6 ELSE IB * 6 * ld + IB * 4
gemm2_offset_invA1(ul) ==
    IF ul = rocblas_fill_lower THEN IB * 4 * NB + IB * 4 ELSE IB * 6 * NB + IB * 6
gemm2_offset_invA2(ul) ==
    IF ul = rocblas_fill_lower THEN IB * 6 * NB + IB * 6 ELSE IB * 4 * NB + IB * 4
\* the second call storing where the first call stores
gemm2_offset_invA3_first(ul) == IF ul = rocblas_fill_lower THEN IB * 2 ELSE IB * 2 * NB
gemm2_offset_invA3(ul) ==
    IF ul = rocblas_fill_lower THEN IB * 4 * NB + IB * 6 ELSE IB * 6 * NB + IB * 4

gemm3_offset_A(ul, ld) == IF ul = rocblas_fill_lower THEN JB ELSE JB * ld
\* the third call taking the other diagonal block as its first operand
gemm3_offset_invA1_swapped(ul) == IF ul = rocblas_fill_lower THEN JB * NB + JB ELSE 0
gemm3_offset_invA1(ul) == IF ul = rocblas_fill_lower THEN 0 ELSE JB * NB + JB
gemm3_offset_invA2(ul) == IF ul = rocblas_fill_lower THEN JB * NB + JB ELSE 0
gemm3_offset_invA3(ul) == IF ul = rocblas_fill_lower THEN JB ELSE JB * NB

\* the argument list common to the three calls; in is the record of the
\* arguments of rocblas_trtri_trsm_template
gemm_args(in, MN, offset_A, offset_invA1, offset_invA2, offset_invA3) ==
    [M |-> MN, N |-> MN,
     ld_A |-> in.lda, stride_A |-> in.stride_A,
     sub_stride_A |-> sub_stride_A_of(in.lda),
     ld_invA |-> NB, stride_invA |-> in.stride_invA,
     sub_stride_invA |-> sub_stride_invA,
     ld_C |-> JB, stride_C |-> 0, sub_stride_C |-> sub_stride_C,
     batch |-> in.batch_count, sub_blocks |-> sub_blocks_of(in.n),
     offset_A |-> in.offset_Ain + offset_A,
     offset_invAg1 |-> in.offset_invAin + offset_invA1,
     offset_invAg2a |-> in.offset_invAin + offset_invA2,
     offset_invAg2c |-> in.offset_invAin + offset_invA3,
     offset_C |-> 0]

gemm1_args(in) ==
    gemm_args(in, IB * 2, gemm1_offset_A(in.uplo, in.lda),
              gemm1_offset_invA1(in.uplo), gemm1_offset_invA2(in.uplo),
              gemm1_offset_invA3(in.uplo))
gemm2_args(in) ==
    gemm_args(in, IB * 2, gemm2_offset_A(in.uplo, in.lda),
              gemm2_offset_invA1(in.uplo), gemm2_offset_invA2(in.uplo),
              gemm2_offset_invA3(in.uplo))
gemm3_args(in) ==
    gemm_args(in, JB, gemm3_offset_A(in.uplo, in.lda),
              gemm3_offset_invA1(in.uplo), gemm3_offset_invA2(in.uplo),
              gemm3_offset_invA3(in.uplo))

\* the remainder tile: where it starts in A and in invA
rem_offset_A(sb, ld, offset) == sb * NB * ld + sb * NB + offset
rem_offset_invA(sb, offset) == sb * NB * NB + offset

\* rocblas_internal_trtri_template / rocblas_internal_trtri_batched_template
\* with sub_blocks = 1: one inversion of order nn per batch entry b < bc
rocblas_internal_trtri_template(bc, ul, dg, nn, Amem, offset_A, ld, strideA, mem, offset_invA, ldinvA, strideinvA) ==
    LET per == nn * nn
        ws  == [k \in 1..(bc * per) |->
                  LET b == (k - 1) \div per
                  IN TrtriStores(ul, dg, nn, Amem,
                                 load_ptr_batch(b, offset_A, strideA), ld,
                                 load_ptr_batch(b, offset_invA, strideinvA),
                                 ldinvA)[((k - 1) % per) + 1]]
    IN StoreAll(mem, ws)

(***************************************************************************)
(* The launches of rocblas_trtri_trsm_template, as functions of its        *)
(* arguments in and of the buffers.                                        *)
(***************************************************************************)
\* the launch of rocblas_trtri_trsm_kernel: invA afterwards
step_kernel(in, Amem, Imem) ==
    KernelLaunch(kernel_grid_x(sub_blocks_of(in.n)), in.batch_count,
                 in.uplo, in.diag, Amem, in.offset_Ain, in.lda, in.stride_A,
                 Imem, in.offset_invAin, in.stride_invA)

\* the padding launch over the full tiles: its grid, and invA afterwards
fill_grid_x(in) ==
    num_sub_blocks_of(rocblas_num_non_tri_elements(NB) * sub_blocks_of(in.n))

step_fill(in, Imem) ==
    rocblas_trtri_fill(Imem, fill_grid_x(in), in.batch_count,
                       fill_uplo(in.uplo), NB, rocblas_num_non_tri_elements(NB),
                       NB, NB * NB, in.offset_invAin, in.stride_invA,
                       sub_blocks_of(in.n))

\* the padding launch over the remainder tile
rem_fill_grid_x(in) ==
    num_sub_blocks_of(rocblas_num_non_tri_elements(rem_of(in.n)))

step_rem_fill(in, Imem) ==
    rocblas_trtri_fill(Imem, rem_fill_grid_x(in), in.batch_count,
                       fill_uplo(in.uplo), rem_of(in.n),
                       rocblas_num_non_tri_elements(rem_of(in.n)), NB, 0,
                       rem_offset_invA(sub_blocks_of(in.n), in.offset_invAin),
                       in.stride_invA, 1)

\* the inversion of the remainder tile
step_rem_trtri(in, Amem, Imem) ==
    rocblas_internal_trtri_template(in.batch_count, in.uplo, in.diag,
        rem_of(in.n), Amem,
        rem_offset_A(sub_blocks_of(in.n), in.lda, in.offset_Ain), in.lda,
        in.stride_A, Imem,
        rem_offset_invA(sub_blocks_of(in.n), in.offset_invAin), NB,
        in.stride_invA)

\* the whole call when every sub-step succeeds: <<invA, C_tmp>> on return
rocblas_trtri_trsm_template(in, Amem, Imem, Cmem) ==
    IF in.n = 0 THEN <<Imem, Cmem>>
    ELSE LET full == IF sub_blocks_of(in.n) # 0
                       THEN LET k0 == step_kernel(in, Amem, Imem)
                                f0 == step_fill(in, k0)
                                g1 == rocblas_trtri_gemm_block(gemm1_args(in), 0,
                                                               Amem, f0, Cmem)
                                g2 == rocblas_trtri_gemm_block(gemm2_args(in), 0,
                                                               Amem, g1[1], g1[2])
                            IN rocblas_trtri_gemm_block(gemm3_args(in), 0, Amem,
                                                        g2[1], g2[2])
                       ELSE <<Imem, Cmem>>
         IN IF rem_of(in.n) # 0
              THEN <<step_rem_trtri(in, Amem, step_rem_fill(in, full[1])),
                     full[2]>>
              ELSE full

(***************************************************************************)
(* Inputs.                                                                 *)
(***************************************************************************)
\* n mod NB of the sizes drawn
RemChoices == {0, 1, 3}
\* no full tile, one, or MaxTiles of them
NChoices == {t * NB + r : t \in {0, 1, MaxTiles}, r \in RemChoices}

\* the patterns of the batch entries, in non-decreasing order: equal and
\* different matrices side by side
SeedChoices(bc) ==
    {sd \in [0..(bc - 1) -> 0..MaxSeed] :
        \A b \in 1..(bc - 1) : sd[b - 1] <= sd[b]}

\* element (r, c) of the matrix of pattern sd: both triangles and the diagonal
\* hold data, so a read of the wrong triangle or of a unit diagonal shows
AEntry(sd, r, c) ==
    IF r = c THEN (IF (r + sd) % 2 = 0 THEN 1 ELSE -1)
    ELSE ((sd + 2 * r + 3 * c + r * c) % 4) - 1

\* what the buffers hold where nothing meaningful was stored
Junk(idx) == 7 + (idx % 3)

\* the strides the caller passes, and the extents of its buffers
stride_A_of(nn, ld) == ld * nn
stride_invA_of(nn) == NB * NB * tiles_of(nn)
A_size(nn, ld, bc, off) == off + bc * stride_A_of(nn, ld) + ld
invA_size(nn, bc, off) == off + bc * stride_invA_of(nn) + NB
C_tmp_size(nn, bc) ==
    JB * JB * (IF sub_blocks_of(nn) > bc THEN sub_blocks_of(nn) ELSE bc)

AInit(idx, sd, nn, ld, bc, off) ==
    LET q == idx - off
    IN IF q < 0 \/ q >= bc * ld * nn THEN Junk(idx)
       ELSE LET r == (q % (ld * nn)) % ld
                c == (q % (ld * nn)) \div ld
            IN IF r >= nn THEN Junk(idx) ELSE AEntry(sd[q \div (ld * nn)], r, c)

Init ==
    /\ pc = "entry"
    /\ status = "none"
    /\ log = <<>>
    /\ uplo \in {rocblas_fill_lower, rocblas_fill_upper}
    /\ diag \in {rocblas_diagonal_non_unit, rocblas_diagonal_unit}
    /\ n \in NChoices
    /\ batch_count \in 1..MaxBatch
    /\ seed \in SeedChoices(batch_count)
    /\ lda = n + 1
    /\ offset_Ain = 2
    /\ offset_invAin = 3
    /\ A = [idx \in 0..(A_size(n, lda, batch_count, offset_Ain) - 1) |->
              AInit(idx, seed, n, lda, batch_count, offset_Ain)]
    /\ invA = [idx \in 0..(invA_size(n, batch_count, offset_invAin) - 1) |->
                 Junk(idx)]
    /\ C_tmp = [idx \in 0..(C_tmp_size(n, batch_count) - 1) |-> Junk(idx)]

(***************************************************************************)
(* The steps of rocblas_trtri_trsm_template.                               *)
(***************************************************************************)
inputs == <<uplo, diag, n, lda, batch_count, offset_Ain, offset_invAin, seed, A>>

sub_blocks == sub_blocks_of(n)
rem == rem_of(n)
stride_A == stride_A_of(n, lda)
stride_invA == stride_invA_of(n)

\* the arguments of the call in progress
call ==
    [uplo |-> uplo, diag |-> diag, n |-> n, lda |-> lda,
     batch_count |-> batch_count, offset_Ain |-> offset_Ain,
     offset_invAin |-> offset_invAin, stride_A |-> stride_A,
     stride_invA |-> stride_invA]

\* a quick return that reports an error instead of success
quick_return_status_wrong == rocblas_status_internal_error

\* what the quick return hands back
quick_return_status == rocblas_status_success

\* if(!n) return; if(sub_blocks) {...}; the remainder follows
after_entry(nn) ==
    IF nn = 0 THEN "done"
    ELSE IF sub_blocks_of(nn) # 0 THEN "kernel" ELSE "rem"

Entry ==
    /\ pc = "entry"
    /\ pc' = after_entry(n)
    /\ status' = IF n = 0 THEN quick_return_status ELSE status
    /\ UNCHANGED <<inputs, invA, C_tmp, log>>

LaunchKernel ==
    /\ pc = "kernel"
    /\ invA' = step_kernel(call, A, invA)
    /\ log' = Append(log, [op |-> "rocblas_trtri_trsm_kernel",
                           status |-> rocblas_status_success,
                           grid_x |-> kernel_grid_x(sub_blocks),
                           grid_y |-> batch_count])
    /\ pc' = "fill"
    /\ UNCHANGED <<inputs, C_tmp, status>>

LaunchFill ==
    /\ pc = "fill"
    /\ invA' = step_fill(call, invA)
    /\ log' = Append(log, [op |-> "rocblas_trtri_fill",
                           status |-> rocblas_status_success,
                           grid_x |-> fill_grid_x(call), grid_y |-> batch_count,
                           n |-> NB, sub_batch_count |-> sub_blocks])
    /\ pc' = "gemm1"
    /\ UNCHANGED <<inputs, C_tmp, status>>

\* the sub-steps that have reported a failure so far
Failures == {i \in 1..Len(log) : log[i].status # rocblas_status_success}

\* the statuses the next sub-step may report: one sub-step of a call at most
\* is made to fail
MayReport == IF Failures = {} THEN SubStepStatus ELSE {rocblas_status_success}

\* one rocblas_trtri_gemm_block call; its return value is not looked at
GemmCall(g, here, next) ==
    /\ pc = here
    /\ \E st \in MayReport :
         /\ log' = Append(log, [op |-> "rocblas_trtri_gemm_block",
                                status |-> st, call |-> here, args |-> g])
         /\ IF st = rocblas_status_success
              THEN LET res == rocblas_trtri_gemm_block(g, 0, A, invA, C_tmp)
                   IN invA' = res[1] /\ C_tmp' = res[2]
              ELSE UNCHANGED <<invA, C_tmp>>
    /\ pc' = next
    /\ UNCHANGED <<inputs, status>>

GemmBlock1 == GemmCall(gemm1_args(call), "gemm1", "gemm2")
GemmBlock2 == GemmCall(gemm2_args(call), "gemm2", "gemm3")
GemmBlock3 == GemmCall(gemm3_args(call), "gemm3", "rem")

\* if(rem) is false: return rocblas_status_success
ReturnNoRem ==
    /\ pc = "rem"
    /\ rem = 0
    /\ pc' = "done"
    /\ status' = rocblas_status_success
    /\ UNCHANGED <<inputs, invA, C_tmp, log>>

RemFill ==
    /\ pc = "rem"
    /\ rem # 0
    /\ invA' = step_rem_fill(call, invA)
    /\ log' = IF rem_fill_grid_x(call) = 0 THEN log
              ELSE Append(log, [op |-> "rocblas_trtri_fill",
                                status |-> rocblas_status_success,
                                grid_x |-> rem_fill_grid_x(call),
                                grid_y |-> batch_count,
                                n |-> rem, sub_batch_count |-> 1])
    /\ pc' = "rem_trtri"
    /\ UNCHANGED <<inputs, C_tmp, status>>

\* status = rocblas_internal_trtri_[batched_]template(...);
\* if(status != rocblas_status_success) return status; return success
RemTrtri ==
    /\ pc = "rem_trtri"
    /\ \E st \in MayReport :
         /\ log' = Append(log, [op |-> "rocblas_internal_trtri_template",
                                status |-> st, n |-> rem])
         /\ invA' = IF st = rocblas_status_success
                      THEN step_rem_trtri(call, A, invA)
                      ELSE invA
         /\ status' = st
    /\ pc' = "done"
    /\ UNCHANGED <<inputs, C_tmp>>

Next ==
    \/ Entry
    \/ LaunchKernel
    \/ LaunchFill
    \/ GemmBlock1
    \/ GemmBlock2
    \/ GemmBlock3
    \/ ReturnNoRem
    \/ RemFill
    \/ RemTrtri

Spec == Init /\ [][Next]_vars

(***************************************************************************)
(* Matrix views of the buffers, used to state the properties.              *)
(***************************************************************************)
Batches == 0..(batch_count - 1)
FullTiles == 0..(sub_blocks - 1)
TileIdx == 0..(NB - 1)

\* element (r, c) of tile t of batch entry b of invA
InvAt(b, t, r, c) ==
    invA[offset_invAin + b * stride_invA + t * NB * NB + r + c * NB]

\* element (r, c) of the matrix of batch entry b of A, as stored
AAt(b, r, c) == A[offset_Ain + b * stride_A + r + c * lda]

\* (r, c) lies outside the triangle uplo: strictly above the diagonal for
\* lower, strictly below it for upper
OutsideActive(r, c) == IF uplo = rocblas_fill_lower THEN r < c ELSE r > c

Returned == pc = "done"
GemmCalls == {i \in 1..Len(log) : log[i].op = "rocblas_trtri_gemm_block"}

(***************************************************************************)
(* Properties.                                                             *)
(***************************************************************************)
\* C1: a call with n = 0 returns rocblas_status_success, issues no launch, no
\* GEMM helper call and no remainder trtri call, and leaves every element of
\* invA and of C_tmp at its value from before the call.
C1_QuickReturnNoOp ==
    (Returned /\ n = 0) =>
        /\ status = rocblas_status_success
        /\ log = <<>>
        /\ \A idx \in DOMAIN invA : invA[idx] = Junk(idx)
        /\ \A idx \in DOMAIN C_tmp : C_tmp[idx] = Junk(idx)

C1_Witness ==
    /\ Returned
    /\ n = 0
    /\ batch_count > 1
    /\ uplo = rocblas_fill_upper
    /\ diag = rocblas_diagonal_unit
    /\ DOMAIN invA # {}

\* C2: a sub-step that reports a status other than success is the last one
\* issued, the call returns right after it, and it returns that status.
C2_FailureAborts ==
    \A i \in Failures :
        /\ i = Len(log)
        /\ Returned
        /\ status = log[i].status

\* C3: after a successful call with n > 0, in every NB x NB tile of invA, the
\* final partial tile included, every entry outside the active triangle is 0.
C3_ZeroOutsideTriangle ==
    (Returned /\ status = rocblas_status_success /\ n > 0) =>
        \A b \in Batches : \A t \in 0..(tiles_of(n) - 1) :
            \A r \in TileIdx : \A c \in TileIdx :
                OutsideActive(r, c) => InvAt(b, t, r, c) = 0

\* C4: when n is not a multiple of NB, after the call every entry of the last
\* tile of invA with row index or column index >= rem is 0.
C4_RemainderTilePadded ==
    (Returned /\ status = rocblas_status_success /\ rem # 0) =>
        \A b \in Batches : \A r \in TileIdx : \A c \in TileIdx :
            (r >= rem \/ c >= rem) => InvAt(b, sub_blocks, r, c) = 0

\* the sum of F(k) for k = lo, ..., hi
RECURSIVE SumOver(_, _, _)
SumOver(F(_), lo, hi) == IF lo > hi THEN 0 ELSE F(lo) + SumOver(F, lo + 1, hi)

\* element (r, c) of the triangular matrix that batch entry b of A stands for:
\* the triangle uplo as stored, 1 on a unit diagonal, 0 in the other triangle
AEff(b, r, c) ==
    IF r = c
      THEN (IF diag = rocblas_diagonal_unit THEN 1 ELSE AAt(b, r, c))
    ELSE IF InTriangle(uplo, r, c) THEN AAt(b, r, c) ELSE 0

\* entry (r, c) of (diagonal block t of A) * (tile t of invA)
BlockTimesTile(b, t, r, c) ==
    SumOver(LAMBDA k : AEff(b, t * NB + r, t * NB + k) * InvAt(b, t, k, c),
            0, NB - 1)

ARow(b, a) == ((a - offset_Ain) - b * stride_A) % lda
ACol(b, a) == ((a - offset_Ain) - b * stride_A) \div lda

\* the addresses of A that gemm call g reads for batch entry b and tile s
GemmAReads(g, b, s) ==
    {gemm_A_base(g, b, s) + i + j * g.ld_A : i \in 0..(g.M - 1), j \in 0..(g.N - 1)}

\* C6: every element of A that a rocblas_trtri_gemm_block call is given as its
\* source block lies inside the matrix and strictly inside the triangle uplo:
\* row > column for lower, row < column for upper.
C6_GemmSourceInActiveHalf ==
    \A i \in GemmCalls : \A b \in Batches : \A s \in FullTiles :
        \A a \in GemmAReads(log[i].args, b, s) :
            /\ a >= offset_Ain + b * stride_A
            /\ ARow(b, a) < n
            /\ ACol(b, a) < n
            /\ IF uplo = rocblas_fill_lower
                 THEN ARow(b, a) > ACol(b, a)
                 ELSE ARow(b, a) < ACol(b, a)

C6_Witness ==
    /\ Cardinality(GemmCalls) = 3
    /\ uplo = rocblas_fill_upper
    /\ sub_blocks = MaxTiles
    /\ batch_count > 1
    /\ \E a \in GemmAReads(log[Len(log)].args, 1, 1) :
           ARow(1, a) = NB /\ ACol(1, a) = 2 * NB - 1

\* the addresses of C_tmp that gemm call g touches
GemmScratch(g) ==
    UNION {{gemm_C_base(g, b, s) + i + j * g.ld_C :
               i \in 0..(g.M - 1), j \in 0..(g.N - 1)} :
           b \in 0..(g.batch - 1), s \in 0..(g.sub_blocks - 1)}

GemmPos(name) == IF name = "gemm2" THEN IB * 4 ELSE 0
GemmOrder(name) == IF name = "gemm3" THEN JB ELSE IB * 2

\* the product X * Y of two S x S blocks given by their entries
BlockProduct(X(_, _), Y(_, _), S) ==
    [i \in 0..(S - 1), j \in 0..(S - 1) |->
        SumOver(LAMBDA k : X(i, k) * Y(k, j), 0, S - 1)]

\* the destination block of call name in tile t of batch entry b holds
\* -(second operand) * (block of A) * (first operand)
DestIsProduct(name, b, t) ==
    LET p == GemmPos(name)
        S == GemmOrder(name)
        tile == offset_invAin + b * stride_invA + t * NB * NB
        blk == offset_Ain + b * stride_A + t * NB * lda + t * NB
        UL(r, c) == invA[tile + (p + r) + (p + c) * NB]
        LR(r, c) == invA[tile + (p + S + r) + (p + S + c) * NB]
        A21(r, c) == A[blk + (p + S + r) + (p + c) * lda]
        A12(r, c) == A[blk + (p + r) + (p + S + c) * lda]
    IN IF uplo = rocblas_fill_lower
         THEN LET AF == BlockProduct(A21, UL, S)
                  AFe(r, c) == AF[r, c]
                  P == BlockProduct(LR, AFe, S)
              IN \A i \in 0..(S - 1) : \A j \in 0..(S - 1) :
                   InvAt(b, t, p + S + i, p + j) = 0 - P[i, j]
         ELSE LET AF == BlockProduct(A12, LR, S)
                  AFe(r, c) == AF[r, c]
                  P == BlockProduct(UL, AFe, S)
              IN \A i \in 0..(S - 1) : \A j \in 0..(S - 1) :
                   InvAt(b, t, p + i, p + S + j) = 0 - P[i, j]

\* the operands of call g are placed as the layout asks: for lower the first
\* inverse operand is the upper-left diagonal block, the second the
\* lower-right one and the destination the lower-left block; for upper the
\* roles of the diagonal blocks are exchanged and the destination is the
\* upper-right block
OperandsPlaced(name, g) ==
    LET p == GemmPos(name)
        S == GemmOrder(name)
        ul == offset_invAin + p + p * NB
        lr == offset_invAin + (p + S) + (p + S) * NB
    IN /\ g.M = S /\ g.N = S
       /\ IF uplo = rocblas_fill_lower
            THEN /\ g.offset_invAg1 = ul
                 /\ g.offset_invAg2a = lr
                 /\ g.offset_invAg2c = offset_invAin + (p + S) + p * NB
                 /\ g.offset_A = offset_Ain + (p + S) + p * lda
            ELSE /\ g.offset_invAg1 = lr
                 /\ g.offset_invAg2a = ul
                 /\ g.offset_invAg2c = offset_invAin + p + (p + S) * NB
                 /\ g.offset_A = offset_Ain + p + (p + S) * lda

SoloRun(b) ==
    LET slice == (offset_Ain + b * stride_A)..(offset_Ain + (b + 1) * stride_A - 1)
        in1 == [call EXCEPT !.batch_count = 1,
                            !.offset_Ain = offset_Ain + b * stride_A,
                            !.offset_invAin = offset_invAin + b * stride_invA]
    IN rocblas_trtri_trsm_template(in1,
           [idx \in DOMAIN A |-> IF idx \in slice THEN A[idx] ELSE 0],
           [idx \in DOMAIN invA |-> 0],
           [idx \in DOMAIN C_tmp |-> 0])[1]

AllTiles == 0..(tiles_of(n) - 1)

\* the elements of a tile the call stores to: all of a full tile, the leading
\* rem x rem corner of the partial one
Stored(t, r, c) == t < sub_blocks \/ (r < rem /\ c < rem)

\* C7: when no sub-step failed, the invA slice of batch entry b is what a
\* single-batch run on the A slice of entry b alone produces, whatever the
\* other slices of A, invA and the scratch held; and batch entries holding the
\* same matrix end with the same inverse tiles.
C7_BatchIndependence ==
    (Returned /\ Failures = {} /\ n > 0) =>
        /\ \A b \in Batches :
             LET solo == SoloRun(b)
             IN \A k \in 0..(stride_invA - 1) :
                  invA[offset_invAin + b * stride_invA + k] =
                    solo[offset_invAin + b * stride_invA + k]
        /\ \A b1 \in Batches : \A b2 \in Batches :
             seed[b1] = seed[b2] =>
               \A t \in AllTiles : \A r \in TileIdx : \A c \in TileIdx :
                   InvAt(b1, t, r, c) = InvAt(b2, t, r, c)

\* the same two statements about the elements the call stores to
BatchIndependenceWhereStored ==
    (Returned /\ Failures = {} /\ n > 0) =>
        /\ \A b \in Batches :
             LET solo == SoloRun(b)
             IN \A t \in AllTiles : \A r \in TileIdx : \A c \in TileIdx :
                  Stored(t, r, c) =>
                    InvAt(b, t, r, c) =
                      solo[offset_invAin + b * stride_invA + t * NB * NB + r + c * NB]
        /\ \A b1 \in Batches : \A b2 \in Batches :
             seed[b1] = seed[b2] =>
               \A t \in AllTiles : \A r \in TileIdx : \A c \in TileIdx :
                   Stored(t, r, c) => InvAt(b1, t, r, c) = InvAt(b2, t, r, c)

(***************************************************************************)
(* The elements of invA each launch of the call in progress stores to and  *)
(* reads, as sets of addresses.                                            *)
(***************************************************************************)
\* what thread block (bx, by) of rocblas_trtri_trsm_kernel stores to
KernelBlockWrites(bx, by) ==
    LET ws == rocblas_trtri_trsm_kernel(bx, by, uplo, diag, A, offset_Ain, lda,
                                        stride_A, offset_invAin, stride_invA)
    IN {ws[k][1] : k \in DOMAIN ws} \ {-1}

\* what a launch of rocblas_trtri_trsm_kernel with grid (gx, gy) stores to
KernelWrites(gx, gy) ==
    UNION {KernelBlockWrites(bx, by) : bx \in 0..(gx - 1), by \in 0..(gy - 1)}

\* what the padding launch over the full tiles stores to: the elements that
\* are 0 afterwards in a buffer that held 1 everywhere
FillWrites ==
    LET after == step_fill(call, [idx \in DOMAIN invA |-> 1])
    IN {idx \in DOMAIN invA : after[idx] = 0}

\* the inverse operand blocks gemm call g reads for batch entry b and tile s
GemmFirstOperand(g, b, s) ==
    {gemm_invAg1_base(g, b, s) + i + j * g.ld_invA :
        i \in 0..(g.N - 1), j \in 0..(g.N - 1)}
GemmSecondOperand(g, b, s) ==
    {gemm_invAg2a_base(g, b, s) + i + j * g.ld_invA :
        i \in 0..(g.M - 1), j \in 0..(g.M - 1)}
\* the destination block gemm call g stores to for batch entry b and tile s
GemmDest(g, b, s) ==
    {gemm_invAg2c_base(g, b, s) + i + j * g.ld_invA :
        i \in 0..(g.M - 1), j \in 0..(g.N - 1)}

\* the same over every batch entry and every tile of the call
GemmOperandReads(g) ==
    UNION {GemmFirstOperand(g, b, s) \cup GemmSecondOperand(g, b, s) :
           b \in 0..(g.batch - 1), s \in 0..(g.sub_blocks - 1)}
GemmDestWrites(g) ==
    UNION {GemmDest(g, b, s) :
           b \in 0..(g.batch - 1), s \in 0..(g.sub_blocks - 1)}

\* what the launch or call recorded as log entry e stores to in invA
LaunchWrites(e) ==
    IF e.status # rocblas_status_success THEN {}
    ELSE IF e.op = "rocblas_trtri_trsm_kernel"
      THEN KernelWrites(e.grid_x, e.grid_y)
    ELSE IF e.op = "rocblas_trtri_fill" /\ e.sub_batch_count = sub_blocks /\ e.n = NB
      THEN FillWrites
    ELSE IF e.op = "rocblas_trtri_gemm_block" THEN GemmDestWrites(e.args)
    ELSE {}

\* what the launches issued before the i-th one have stored to
WrittenBefore(i) == UNION {LaunchWrites(log[j]) : j \in 1..(i - 1)}

\* the rocblas_trtri_gemm_block call that has just been issued, if the last
\* thing issued is one; every call is in this position once
JustIssued == {i \in GemmCalls : i = Len(log)}

FullTileFills ==
    {j \in 1..Len(log) : /\ log[j].op = "rocblas_trtri_fill"
                         /\ log[j].n = NB
                         /\ log[j].sub_batch_count = sub_blocks}

\* C12 (as stated): the elements of invA the padding launch over the full
\* tiles stores to are disjoint from the elements every
\* rocblas_trtri_gemm_block call reads as an inverse operand or stores to.
C12_PaddingDisjointFromGemm ==
    LET fw == FillWrites
    IN \A i \in GemmCalls :
         fw \cap (GemmOperandReads(log[i].args) \cup GemmDestWrites(log[i].args)) = {}

\* C12 (amended): the padding launch stores to no destination element of a
\* rocblas_trtri_gemm_block call, but every call reads elements the padding
\* launch zeroes as part of its square inverse operand blocks, and the
\* padding launch is issued before the call; stated of each call as it is
\* issued.
C12_PaddingPrecedesGemm ==
    \A i \in JustIssued :
      LET fw == FillWrites
      IN
         /\ fw \cap GemmDestWrites(log[i].args) = {}
         /\ fw \cap GemmOperandReads(log[i].args) # {}
         /\ \E j \in FullTileFills : j < i

C12_Witness ==
    /\ Cardinality(GemmCalls) = 3
    /\ JustIssued # {}
    /\ uplo = rocblas_fill_upper
    /\ sub_blocks = MaxTiles
    /\ batch_count > 1
    /\ \E i \in GemmCalls :
         /\ log[i].call = "gemm3"
         /\ Cardinality(FillWrites \cap GemmOperandReads(log[i].args))
              = 2 * rocblas_num_non_tri_elements(JB) * sub_blocks * batch_count

\* the scratch block gemm call g uses for batch entry b and tile s
ScratchRegion(g, b, s) ==
    {gemm_C_base(g, b, s) + i + j * g.ld_C :
        i \in 0..(g.M - 1), j \in 0..(g.N - 1)}

KernelLaunched == Len(log) = 1 /\ log[1].op = "rocblas_trtri_trsm_kernel"

\* the thread blocks (blockIdx.x, blockIdx.y) of the launch
ThreadBlocks == (0..(log[1].grid_x - 1)) \X (0..(log[1].grid_y - 1))

\* where thread block tb starts in A and in invA
ThreadBlockA(tb) ==
    load_ptr_batch(kernel_batch(tb[1], tb[2]),
                   kernel_offA(tb[1], lda, offset_Ain), stride_A)
ThreadBlockInvA(tb) ==
    load_ptr_batch(kernel_batch(tb[1], tb[2]),
                   kernel_offinvA(tb[1], offset_invAin), stride_invA)

\* the q-th IB x IB diagonal leaf block of tile t of batch entry b: where it
\* starts in A and in invA
LeafA(b, t, q) == offset_Ain + b * stride_A + (t * NB + q * IB) * (lda + 1)
LeafInvA(b, t, q) ==
    offset_invAin + b * stride_invA + t * NB * NB + q * IB * (NB + 1)

\* the elements of the square block of order m at leaf q of tile t, entry b
SquareAtLeaf(b, t, q, m) ==
    {LeafInvA(b, t, q) + r + c * NB : r \in 0..(m - 1), c \in 0..(m - 1)}

\* the elements of the remainder tile of every batch entry, if there is one
RemainderTile ==
    IF rem = 0 THEN {}
    ELSE UNION {{offset_invAin + b * stride_invA + sub_blocks * NB * NB + k :
                    k \in 0..(NB * NB - 1)} : b \in Batches}

\* distinct thread blocks store to disjoint sets of elements, and none stores
\* into the remainder tile
ThreadBlocksApart ==
    /\ \A tb1 \in ThreadBlocks : \A tb2 \in ThreadBlocks :
         tb1 # tb2 =>
             KernelBlockWrites(tb1[1], tb1[2]) \cap KernelBlockWrites(tb2[1], tb2[2]) = {}
    /\ \A tb \in ThreadBlocks :
         KernelBlockWrites(tb[1], tb[2]) \cap RemainderTile = {}

KernelDiagonalBlocks ==
    UNION {SquareAtLeaf(b, t, 2 * q, 2 * IB) :
           b \in Batches, t \in FullTiles, q \in 0..((IBD \div 2) - 1)}

\* C15: the destination block of every rocblas_trtri_gemm_block call is
\* disjoint from the two inverse operand blocks of that call, the destinations
\* of different calls are disjoint, and no destination overlaps a diagonal
\* block the kernel launch inverts or an element it stores to; stated of each
\* call as it is issued, against every call issued so far.
C15_DestinationsApart ==
    \A i \in JustIssued :
         LET kw   == IF log[1].op = "rocblas_trtri_trsm_kernel"
                       THEN KernelWrites(log[1].grid_x, log[1].grid_y) ELSE {}
             dest == GemmDestWrites(log[i].args)
         IN /\ dest \cap GemmOperandReads(log[i].args) = {}
            /\ \A b \in Batches : \A s \in FullTiles :
                 /\ GemmDest(log[i].args, b, s)
                      \cap GemmFirstOperand(log[i].args, b, s) = {}
                 /\ GemmDest(log[i].args, b, s)
                      \cap GemmSecondOperand(log[i].args, b, s) = {}
            /\ \A j \in GemmCalls :
                 j # i => dest \cap GemmDestWrites(log[j].args) = {}
            /\ dest \cap KernelDiagonalBlocks = {}
            /\ dest \cap kw = {}

C15_Witness ==
    /\ Cardinality(GemmCalls) = 3
    /\ JustIssued # {}
    /\ sub_blocks = MaxTiles
    /\ batch_count = MaxBatch
    /\ uplo = rocblas_fill_lower
    /\ log[1].op = "rocblas_trtri_trsm_kernel"
    /\ \E i \in GemmCalls :
         /\ log[i].call = "gemm3"
         /\ Cardinality(GemmDestWrites(log[i].args))
              = JB * JB * sub_blocks * batch_count
         /\ offset_invAin + stride_invA + NB * NB + (NB - 1)
              \in GemmDest(log[i].args, 1, 1)

====
